---- MODULE Spec2Model ----
(***************************************************************************)
(* Staff attendance dashboard (src/app.py): the attendance fact table,     *)
(* the roster reconciler, the KPI calculator, the leaderboard builder and  *)
(* the period rollup, as a state machine.  Tables (DataFrames) are         *)
(* sequences of records, strings are sequences of one-character strings,   *)
(* dates are <<year, month, day>>, times of day are minutes after          *)
(* midnight, and percentages rounded to one decimal are integers counting  *)
(* tenths of a percent.                                                    *)
(***************************************************************************)
EXTENDS Integers, Sequences, FiniteSets

VARIABLES
    df,                     \* combined attendance facts (combine_all_files)
    staff_list_df,          \* processed staff master list (process_staff_list)
    calls,                  \* the functions called so far, in order
    merged_df,              \* compare_staff_lists: roster rows with their counts
    attending_from_master,  \* compare_staff_lists: roster rows with a matching fact
    non_attending_staff,    \* compare_staff_lists: roster rows with no matching fact
    attendance_only_staff,  \* compare_staff_lists: facts' (name, department) not on the roster
    kpis,                   \* calculate_kpis
    week_report,            \* create_time_period_report(df, "week")
    month_report,           \* create_time_period_report(df, "month")
    leaderboard,            \* the leaderboard table
    lb_path,                \* which code built the leaderboard
    person_facts,           \* streak calculator: one person's facts, as received
    walked,                 \* streak calculator: the facts in the order walked
    max_on_time_streak,     \* streak calculator: the result
    rows_read               \* the rows read from the attendance files, before the filter

vars == <<df, staff_list_df, calls, merged_df, attending_from_master,
          non_attending_staff, attendance_only_staff, kpis, week_report,
          month_report, leaderboard, lb_path, person_facts, walked,
          max_on_time_streak, rows_read>>

(***************************************************************************)
(* Bounds of the model.                                                    *)
(***************************************************************************)
MaxFacts == 2          \* attendance rows uploaded, reconciliation runs
MaxBoardFacts == 3     \* attendance rows uploaded, leaderboard runs
MaxKpiFacts == 2       \* attendance rows uploaded, KPI runs
MaxPeriodFacts == 2    \* attendance rows uploaded, period rollup runs
MaxSignInFacts == 3    \* attendance rows uploaded, sign-in runs
MaxStaff == 2          \* rows of the staff master list uploaded
MaxPersonFacts == 6    \* facts of the one person given to the streak calculator

EmptyFrame == << >>    \* pd.DataFrame()

(***************************************************************************)
(* Generic helpers on sequences and sets.                                  *)
(***************************************************************************)
Range(s) == { s[i] : i \in 1..Len(s) }

Max(a, b) == IF a >= b THEN a ELSE b

\* all orderings of the rows of s
Orderings(s) ==
    LET n == Len(s)
        perms == { p \in [1..n -> 1..n] : \A i, j \in 1..n : p[i] = p[j] => i = j }
    IN  { [i \in 1..n |-> s[p[i]]] : p \in perms }

\* a stable sort of the rows of s, below[i, j] telling whether row i sorts
\* strictly before row j: row i goes after the rows that are below it and
\* after the earlier rows that are level with it
StableSort(s, below) ==
    LET n == Len(s)
        placed == { << 1 + Cardinality({ j \in 1..n :
                         below[j, i] \/ (~below[i, j] /\ j < i) }), i >> :
                    i \in 1..n }
    IN  [k \in 1..n |-> s[(CHOOSE p \in placed : p[1] = k)[2]]]

\* DataFrame.drop_duplicates(): the first occurrence of every row is kept
RECURSIVE DropDuplicates(_)
DropDuplicates(s) ==
    IF s = << >> THEN << >>
    ELSE LET front == DropDuplicates(SubSeq(s, 1, Len(s) - 1))
             last == s[Len(s)]
         IN  IF last \in Range(front) THEN front ELSE Append(front, last)

\* round(num / den) to the nearest integer, a tie going to the even one
RoundDiv(num, den) ==
    LET q == num \div den
        r == num % den
    IN  IF 2 * r < den THEN q
        ELSE IF 2 * r > den THEN q + 1
        ELSE IF q % 2 = 0 THEN q ELSE q + 1

\* round(part / whole * 100, 1), in tenths of a percent
PercentTenths(part, whole) == RoundDiv(1000 * part, whole)

(***************************************************************************)
(* Strings: sequences of one-character strings, ordered as Python orders   *)
(* them (by code point).                                                   *)
(***************************************************************************)
Chars ==
    << " ", "-",
       "0", "1", "2", "3", "4", "5", "6", "7", "8", "9",
       "A", "B", "C", "D", "E", "F", "G", "H", "I", "J", "K", "L", "M",
       "N", "O", "P", "Q", "R", "S", "T", "U", "V", "W", "X", "Y", "Z",
       "a", "b", "c", "d", "e", "f", "g", "h", "i", "j", "k", "l", "m",
       "n", "o", "p", "q", "r", "s", "t", "u", "v", "w", "x", "y", "z" >>

Ord(c) == CHOOSE i \in 1..Len(Chars) : Chars[i] = c

\* the upper-case letter of every lower-case letter
UpperOf ==
    [ a |-> "A", b |-> "B", c |-> "C", d |-> "D", e |-> "E", f |-> "F",
      g |-> "G", h |-> "H", i |-> "I", j |-> "J", k |-> "K", l |-> "L",
      m |-> "M", n |-> "N", o |-> "O", p |-> "P", q |-> "Q", r |-> "R",
      s |-> "S", t |-> "T", u |-> "U", v |-> "V", w |-> "W", x |-> "X",
      y |-> "Y", z |-> "Z" ]

\* str.upper()
UpperChar(c) == IF c \in DOMAIN UpperOf THEN UpperOf[c] ELSE c
Upper(s) == [i \in 1..Len(s) |-> UpperChar(s[i])]

\* str.strip()
RECURSIVE LStrip(_)
LStrip(s) == IF s # << >> /\ Head(s) = " " THEN LStrip(Tail(s)) ELSE s
RECURSIVE RStrip(_)
RStrip(s) ==
    IF s # << >> /\ s[Len(s)] = " " THEN RStrip(SubSeq(s, 1, Len(s) - 1)) ELSE s
Strip(s) == RStrip(LStrip(s))

\* s < t for Python strings
RECURSIVE StrLess(_, _)
StrLess(s, t) ==
    IF t = << >> THEN FALSE
    ELSE IF s = << >> THEN TRUE
    ELSE IF Head(s) # Head(t) THEN Ord(Head(s)) < Ord(Head(t))
    ELSE StrLess(Tail(s), Tail(t))

\* str(n) for n >= 0
RECURSIVE IntToStr(_)
IntToStr(n) ==
    IF n < 10 THEN << Chars[n + 3] >>
    ELSE Append(IntToStr(n \div 10), Chars[(n % 10) + 3])

\* int(s) for a string of decimal digits
RECURSIVE StrToInt(_)
StrToInt(s) ==
    IF s = << >> THEN 0
    ELSE 10 * StrToInt(SubSeq(s, 1, Len(s) - 1)) + (Ord(s[Len(s)]) - 3)

IsPrefix(p, s) == Len(p) <= Len(s) /\ SubSeq(s, 1, Len(p)) = p

\* s.split(sep)
RECURSIVE SplitFrom(_, _, _)
SplitFrom(s, sep, cur) ==
    IF s = << >> THEN << cur >>
    ELSE IF IsPrefix(sep, s)
         THEN << cur >> \o SplitFrom(SubSeq(s, Len(sep) + 1, Len(s)), sep, << >>)
         ELSE SplitFrom(Tail(s), sep, Append(cur, Head(s)))
Split(s, sep) == SplitFrom(s, sep, << >>)

(***************************************************************************)
(* Calendar dates <<year, month, day>>.                                    *)
(***************************************************************************)
IsLeap(y) == (y % 4 = 0) /\ ((y % 100 # 0) \/ (y % 400 = 0))

DaysBeforeMonth(y, m) ==
    << 0, 31, 59, 90, 120, 151, 181, 212, 243, 273, 304, 334 >>[m]
    + (IF m > 2 /\ IsLeap(y) THEN 1 ELSE 0)

\* the day number of a date, 0001-01-01 being day 1 (a Monday)
ToOrdinal(date) ==
    LET y == date[1] - 1
    IN  y * 365 + (y \div 4) - (y \div 100) + (y \div 400)
        + DaysBeforeMonth(date[1], date[2]) + date[3]

DateLess(a, b) == ToOrdinal(a) < ToOrdinal(b)

\* the Monday that starts ISO week 1 of a year
IsoWeek1Monday(year) ==
    LET firstday == ToOrdinal(<< year, 1, 1 >>)
        firstweekday == (firstday + 6) % 7
    IN  IF firstweekday > 3 THEN firstday - firstweekday + 7
        ELSE firstday - firstweekday

\* date.isocalendar(): <<ISO year, ISO week>>
IsoCalendar(date) ==
    LET today == ToOrdinal(date)
        year == date[1]
        week == (today - IsoWeek1Monday(year)) \div 7
    IN  IF today < IsoWeek1Monday(year)
        THEN << year - 1, ((today - IsoWeek1Monday(year - 1)) \div 7) + 1 >>
        ELSE IF week >= 52 /\ today >= IsoWeek1Monday(year + 1)
        THEN << year + 1, 1 >>
        ELSE << year, week + 1 >>

\* strftime("%b"), as a string
MonthAbbr(m) ==
    << << "J", "a", "n" >>, << "F", "e", "b" >>, << "M", "a", "r" >>,
       << "A", "p", "r" >>, << "M", "a", "y" >>, << "J", "u", "n" >>,
       << "J", "u", "l" >>, << "A", "u", "g" >>, << "S", "e", "p" >>,
       << "O", "c", "t" >>, << "N", "o", "v" >>, << "D", "e", "c" >> >>[m]

\* the week label: str(ISO year) + "-W" + str(ISO week)
WeekIdentifier(date) ==
    IntToStr(IsoCalendar(date)[1]) \o << "-", "W" >> \o IntToStr(IsoCalendar(date)[2])

\* the month label: date.strftime("%b %Y")
MonthYear(date) == MonthAbbr(date[2]) \o << " " >> \o IntToStr(date[1])

\* pd.to_datetime(label, format="%b %Y"): the first day of the label's month
ParseMonthYear(label) ==
    LET parts == Split(label, << " " >>)
        m == CHOOSE k \in 1..12 : MonthAbbr(k) = parts[1]
    IN  << StrToInt(parts[2]), m, 1 >>

(***************************************************************************)
(* Inputs: rows of the uploaded attendance files and of the staff list.    *)
(***************************************************************************)
LATE_TIME == 480       \* time(8, 0), in minutes after midnight
NoTime == -1           \* an empty SIGN-IN cell: convert_time gives None

Today == << 2024, 1, 10 >>    \* datetime.date.today() of the run

\* "A" and " a" are one person written two ways
FactNames == { << "A" >>, << " ", "a" >>, << "D" >> }
Departments == { "Ops", "Lab" }
StaffNames == { << "A" >>, << "b", " " >>, << "C" >> }

\* rows for the reconciliation runs: names, departments and sign-in times
\* vary
RosterRows ==
    [name : FactNames, department : Departments, date : { Today },
     sign_in : { LATE_TIME, LATE_TIME + 1 }]

\* rows for the sign-in runs: sign-ins before, at and after the threshold, and
\* rows without a sign-in time
SignInRows ==
    [name : { << "A" >>, << "D" >> }, department : { "Ops" }, date : { Today },
     sign_in : { LATE_TIME - 1, LATE_TIME, LATE_TIME + 1, NoTime }]

\* rows for the leaderboard runs: three persons, on time or late
BoardRows ==
    [name : { << "A" >>, << "D" >>, << "E" >> }, department : { "Ops" },
     date : { Today }, sign_in : { LATE_TIME, LATE_TIME + 1 }]

\* rows for the KPI runs: dates before and on the day of the run
KpiDates == { << 2024, 1, 1 >>, << 2024, 1, 5 >>, Today }
KpiRows ==
    [name : { << "A" >>, << "D" >> }, department : { "Ops" }, date : KpiDates,
     sign_in : { LATE_TIME, LATE_TIME + 1 }]

\* rows for the period rollups: dates in several ISO weeks, months and years
PeriodDates ==
    { << 2024, 12, 27 >>, << 2024, 12, 30 >>, << 2025, 2, 24 >>,
      << 2025, 3, 3 >>, << 2025, 4, 1 >> }
PeriodRows ==
    [name : { << "A" >>, << "D" >> }, department : { "Ops" }, date : PeriodDates,
     sign_in : { LATE_TIME, LATE_TIME + 1 }]

StaffRows == [name : StaffNames, department : { "Ops" }]

(***************************************************************************)
(* process_excel_file, process_staff_list, combine_all_files.              *)
(***************************************************************************)
\* a late mark that a sign-in at the threshold gets too
IsLateAtThreshold(x) == x >= LATE_TIME

\* the late mark of a sign-in time
IsLate(x) == x > LATE_TIME

\* facts whose on_time mark is set from the sign-in time, before the
\* threshold, and not from the late mark
ProcessExcelFileOnTimeBefore(rows) ==
    LET kept == SelectSeq(rows, LAMBDA r : r.sign_in # NoTime)
    IN  [i \in 1..Len(kept) |->
            [name            |-> kept[i].name,
             department      |-> kept[i].department,
             date            |-> kept[i].date,
             sign_in_time    |-> kept[i].sign_in,
             week_identifier |-> WeekIdentifier(kept[i].date),
             month_year      |-> MonthYear(kept[i].date),
             late            |-> IsLate(kept[i].sign_in),
             on_time         |-> kept[i].sign_in < LATE_TIME]]

\* the facts a file's rows give: rows without a sign-in time are removed, the
\* others get their week and month labels and their late / on_time marks
ProcessExcelFile(rows) ==
    LET kept == SelectSeq(rows, LAMBDA r : r.sign_in # NoTime)
    IN  [i \in 1..Len(kept) |->
            [name            |-> kept[i].name,
             department      |-> kept[i].department,
             date            |-> kept[i].date,
             sign_in_time    |-> kept[i].sign_in,
             week_identifier |-> WeekIdentifier(kept[i].date),
             month_year      |-> MonthYear(kept[i].date),
             late            |-> IsLate(kept[i].sign_in),
             on_time         |-> ~IsLate(kept[i].sign_in)]]

\* the staff list: names stripped and upper-cased, duplicate rows dropped
ProcessStaffList(rows) ==
    DropDuplicates([i \in 1..Len(rows) |->
        [name |-> Upper(Strip(rows[i].name)), department |-> rows[i].department]])

(***************************************************************************)
(* compare_staff_lists.                                                    *)
(***************************************************************************)
\* a clean name that is stripped but keeps its case
NameCleanKeepsCase(name) == Strip(name)

\* .astype(str).str.strip().str.upper()
NameClean(name) == Upper(Strip(name))

\* the status label of a sign-in count, as compare_staff_lists assigns it
AttendanceStatus(x) ==
    IF x >= 3 THEN "Regular" ELSE IF x > 0 THEN "Occasional" ELSE "Non-Attending"

\* on_time_percentage with 100 for a row without a sign-in
OnTimePercentageFullWhenNone(on_time_days, total_days) ==
    IF total_days > 0 THEN PercentTenths(on_time_days, total_days) ELSE 1000

\* on_time_percentage of a merged row
OnTimePercentage(on_time_days, total_days) ==
    IF total_days > 0 THEN PercentTenths(on_time_days, total_days) ELSE 0

\* a merged row that counts the dates with a fact, not the facts
MergedRowByDate(attendance_df, s) ==
    LET name_clean == NameClean(s.name)
        mine == SelectSeq(attendance_df, LAMBDA f : NameClean(f.name) = name_clean)
        total == Cardinality({ f.date : f \in Range(mine) })
        on    == Cardinality({ f.date : f \in { g \in Range(mine) : g.on_time } })
        late  == Cardinality({ f.date : f \in { g \in Range(mine) : g.late } })
    IN  [name               |-> s.name,
         department         |-> s.department,
         name_clean         |-> name_clean,
         total_days         |-> total,
         on_time_days       |-> on,
         late_days          |-> late,
         on_time_percentage |-> OnTimePercentage(on, total),
         attendance_status  |-> AttendanceStatus(total)]

\* the row of the left merge for one staff row: the counts of the facts
\* grouped under its clean name, 0 where there is no such group
MergedRow(attendance_df, s) ==
    LET name_clean == NameClean(s.name)
        mine(f) == NameClean(f.name) = name_clean
        total == Len(SelectSeq(attendance_df, mine))
        on    == Len(SelectSeq(attendance_df, LAMBDA f : mine(f) /\ f.on_time))
        late  == Len(SelectSeq(attendance_df, LAMBDA f : mine(f) /\ f.late))
    IN  [name               |-> s.name,
         department         |-> s.department,
         name_clean         |-> name_clean,
         total_days         |-> total,
         on_time_days       |-> on,
         late_days          |-> late,
         on_time_percentage |-> OnTimePercentage(on, total),
         attendance_status  |-> AttendanceStatus(total)]

\* the facts' clean names
AttendingStaff(attendance_df) == { NameClean(f.name) : f \in Range(attendance_df) }

\* the roster's clean names
AllStaff(staff) == { NameClean(r.name) : r \in Range(staff) }

NonAttendingStaff(attendance_df, staff) ==
    SelectSeq(staff, LAMBDA r : NameClean(r.name) \notin AttendingStaff(attendance_df))

AttendingFromMaster(attendance_df, staff) ==
    SelectSeq(staff, LAMBDA r : NameClean(r.name) \in AttendingStaff(attendance_df))

AttendanceOnlyStaff(attendance_df, staff) ==
    LET only == SelectSeq(attendance_df, LAMBDA f : NameClean(f.name) \notin AllStaff(staff))
    IN  DropDuplicates([i \in 1..Len(only) |->
            [name |-> only[i].name, department |-> only[i].department]])

\* compare_staff_lists without its check for empty tables
CompareWithoutEmptyCheck(attendance_df, staff) ==
    [merged_df             |-> [i \in 1..Len(staff) |-> MergedRow(attendance_df, staff[i])],
     non_attending_staff   |-> NonAttendingStaff(attendance_df, staff),
     attendance_only_staff |-> AttendanceOnlyStaff(attendance_df, staff),
     attending_from_master |-> AttendingFromMaster(attendance_df, staff)]

CompareStaffListsResult(attendance_df, staff) ==
    IF attendance_df = EmptyFrame \/ staff = EmptyFrame
    THEN [merged_df             |-> EmptyFrame,
          non_attending_staff   |-> EmptyFrame,
          attendance_only_staff |-> EmptyFrame,
          attending_from_master |-> EmptyFrame]
    ELSE [merged_df             |-> [i \in 1..Len(staff) |-> MergedRow(attendance_df, staff[i])],
          non_attending_staff   |-> NonAttendingStaff(attendance_df, staff),
          attendance_only_staff |-> AttendanceOnlyStaff(attendance_df, staff),
          attending_from_master |-> AttendingFromMaster(attendance_df, staff)]

(***************************************************************************)
(* calculate_kpis.  Rates and averages are in tenths.                      *)
(***************************************************************************)
\* the name column counted with count() where nunique() is meant
NameCount(t) == Len(t)

\* Series.nunique() of the name column
NameNunique(t) == Cardinality({ f.name : f \in Range(t) })

\* the KPI record of an empty fact table
EmptyKpis(staff) ==
    IF staff # EmptyFrame
    THEN [total_staff |-> 0, present_today |-> 0, absent_today |-> 0,
          avg_signins |-> 0, today |-> Today, total_on_time |-> 0,
          total_late |-> 0, on_time_rate |-> 0, avg_daily_attendance |-> 0,
          total_signins |-> 0, total_days_covered |-> 0, date_range |-> "N/A",
          total_staff_in_list |-> Len(staff), attending_staff |-> 0,
          non_attending_staff |-> Len(staff), attendance_rate |-> 0]
    ELSE [total_staff |-> 0, present_today |-> 0, absent_today |-> 0,
          avg_signins |-> 0, today |-> Today, total_on_time |-> 0,
          total_late |-> 0, on_time_rate |-> 0, avg_daily_attendance |-> 0,
          total_signins |-> 0, total_days_covered |-> 0, date_range |-> "N/A"]

\* today_data["name"].nunique()
PresentToday(t) == NameNunique(SelectSeq(t, LAMBDA f : f.date = Today))

\* absent_today without the floor at 0
AbsentTodayUnclamped(total_staff_in_list, present_today) ==
    total_staff_in_list - present_today

\* absent_today when a staff list is given
AbsentTodayWithRoster(total_staff_in_list, present_today) ==
    Max(0, total_staff_in_list - present_today)

\* absent_today when no staff list is given: the placeholder is kept
AbsentTodayNoRoster(attending_staff_count, present_today) == 0

\* on_time_rate
OnTimeRate(total_on_time, total_signins) ==
    IF total_signins > 0 THEN PercentTenths(total_on_time, total_signins) ELSE 0

\* attendance_rate
AttendanceRate(attending_staff_count, total_staff_in_list) ==
    IF total_staff_in_list > 0
    THEN PercentTenths(attending_staff_count, total_staff_in_list) ELSE 0

\* the days from min_date to max_date, not counting min_date
DaysBetween(min_date, max_date) == ToOrdinal(max_date) - ToOrdinal(min_date)

\* (max_date - min_date).days + 1
TotalDaysCovered(min_date, max_date) == ToOrdinal(max_date) - ToOrdinal(min_date) + 1

CalculateKpisResult(t, staff) ==
    IF t = EmptyFrame THEN EmptyKpis(staff)
    ELSE
    LET attending_staff_count == NameNunique(t)
        present_today == PresentToday(t)
        avg_signins == RoundDiv(10 * Len(t), attending_staff_count)
        total_on_time == Len(SelectSeq(t, LAMBDA f : f.on_time))
        total_late == Len(SelectSeq(t, LAMBDA f : f.late))
        total_signins == total_on_time + total_late
        dates == { f.date : f \in Range(t) }
        \* the sum over the dates of the distinct names of each date
        daily == Cardinality({ << f.date, f.name >> : f \in Range(t) })
        avg_daily_attendance ==
            IF Cardinality(dates) > 0 /\ attending_staff_count > 0
            THEN RoundDiv(1000 * daily, Cardinality(dates) * attending_staff_count)
            ELSE 0
        min_date == CHOOSE d \in dates : \A e \in dates : ~DateLess(e, d)
        max_date == CHOOSE d \in dates : \A e \in dates : ~DateLess(d, e)
        total_staff_in_list == Len(staff)
    IN  IF staff # EmptyFrame
        THEN [total_staff |-> attending_staff_count,
              present_today |-> present_today,
              absent_today |-> AbsentTodayWithRoster(total_staff_in_list, present_today),
              avg_signins |-> avg_signins,
              today |-> Today,
              total_on_time |-> total_on_time,
              total_late |-> total_late,
              on_time_rate |-> OnTimeRate(total_on_time, total_signins),
              avg_daily_attendance |-> avg_daily_attendance,
              total_signins |-> total_signins,
              total_days_covered |-> TotalDaysCovered(min_date, max_date),
              date_range |-> << min_date, max_date >>,
              total_staff_in_list |-> total_staff_in_list,
              attending_staff |-> attending_staff_count,
              non_attending_staff |-> Max(0, total_staff_in_list - attending_staff_count),
              attendance_rate |-> AttendanceRate(attending_staff_count, total_staff_in_list)]
        ELSE [total_staff |-> attending_staff_count,
              present_today |-> present_today,
              absent_today |-> AbsentTodayNoRoster(attending_staff_count, present_today),
              avg_signins |-> avg_signins,
              today |-> Today,
              total_on_time |-> total_on_time,
              total_late |-> total_late,
              on_time_rate |-> OnTimeRate(total_on_time, total_signins),
              avg_daily_attendance |-> avg_daily_attendance,
              total_signins |-> total_signins,
              total_days_covered |-> TotalDaysCovered(min_date, max_date),
              date_range |-> << min_date, max_date >>]

(***************************************************************************)
(* The leaderboard: create_attendance_leaderboard for the roster-merged    *)
(* table, and the attendance-only table built in the main script.  The     *)
(* order of rows that tie on the sort keys is left open.                   *)
(***************************************************************************)
\* the merged order with the sort ascending
MergedOrderAscending(a, b) ==
    \/ a.total_days < b.total_days
    \/ a.total_days = b.total_days /\ a.on_time_percentage <= b.on_time_percentage

\* sort_values(by=["total_days", "on_time_percentage"], ascending=[False, False])
MergedOrder(a, b) ==
    \/ a.total_days > b.total_days
    \/ a.total_days = b.total_days /\ a.on_time_percentage >= b.on_time_percentage

\* sort_values("total_days", ascending=False)
BasicOrder(a, b) == a.total_days >= b.total_days

\* the orderings of the merged table that its sort may give
MergedOrderings(t) ==
    { o \in Orderings(t) : \A i \in 1..(Len(o) - 1) : MergedOrder(o[i], o[i + 1]) }

\* the orderings of the attendance-only table that its sort may give
BasicOrderings(t) ==
    { o \in Orderings(t) : \A i \in 1..(Len(o) - 1) : BasicOrder(o[i], o[i + 1]) }

\* a rank column in which rows with equal sign-in counts share a rank
CompetitionRankColumn(t) ==
    [i \in 1..Len(t) |->
        1 + Cardinality({ j \in 1..Len(t) : t[j].total_days > t[i].total_days })]

\* the rank column: range(1, len(leaderboard) + 1)
RankColumn(t) == [i \in 1..Len(t) |-> i]

\* the table with its rank column and the displayed columns
Ranked(t) ==
    [i \in 1..Len(t) |->
        [rank               |-> RankColumn(t)[i],
         name               |-> t[i].name,
         department         |-> t[i].department,
         total_days         |-> t[i].total_days,
         on_time_percentage |-> t[i].on_time_percentage,
         on_time_days       |-> t[i].on_time_days,
         late_days          |-> t[i].late_days,
         attendance_status  |-> t[i].attendance_status]]

\* a leaderboard that leaves out the rows without a sign-in
LeaderboardWithoutZeroRows(merged) ==
    IF merged = EmptyFrame THEN { EmptyFrame }
    ELSE { Ranked(SelectSeq(o, LAMBDA r : r.total_days > 0)) :
             o \in MergedOrderings(merged) }

\* the tables create_attendance_leaderboard may return
CreateAttendanceLeaderboard(merged) ==
    IF merged = EmptyFrame THEN { EmptyFrame }
    ELSE { Ranked(o) : o \in MergedOrderings(merged) }

\* status labels with Regular from 2 sign-ins on
BasicStatusRegularFromTwo(x) ==
    IF x >= 2 THEN "Regular" ELSE IF x > 0 THEN "Occasional" ELSE "Non-Attending"

\* the status label of a sign-in count, as the main script assigns it
BasicAttendanceStatus(x) ==
    IF x >= 3 THEN "Regular" ELSE IF x > 0 THEN "Occasional" ELSE "Non-Attending"

\* df.groupby(["name", "department"]) with its counts: one row for every
\* (name, department) of the facts
AttendanceStats(t) ==
    LET groups == DropDuplicates([i \in 1..Len(t) |->
                      [name |-> t[i].name, department |-> t[i].department]])
        row(g) ==
            LET mine(f) == f.name = g.name /\ f.department = g.department
                total == Len(SelectSeq(t, mine))
                on    == Len(SelectSeq(t, LAMBDA f : mine(f) /\ f.on_time))
                late  == Len(SelectSeq(t, LAMBDA f : mine(f) /\ f.late))
            IN  [name               |-> g.name,
                 department         |-> g.department,
                 total_days         |-> total,
                 on_time_days       |-> on,
                 late_days          |-> late,
                 on_time_percentage |-> PercentTenths(on, total),
                 attendance_status  |-> BasicAttendanceStatus(total)]
    IN  [i \in 1..Len(groups) |-> row(groups[i])]

\* the tables the main script's attendance-only branch may build
BasicLeaderboard(t) ==
    { Ranked(o) : o \in BasicOrderings(AttendanceStats(t)) }

(***************************************************************************)
(* create_time_period_report.                                              *)
(***************************************************************************)
\* the key the week labels are ordered by: (int(year), int(week))
WeekSortKey(x) ==
    << StrToInt(Split(x, << "-" >>)[1]), StrToInt(Split(x, << "-", "W" >>)[2]) >>

PairLess(a, b) == a[1] < b[1] \/ (a[1] = b[1] /\ a[2] < b[2])

\* the week labels ordered as strings
WeekLessByLabel(a, b) == StrLess(a.period, b.period)

\* the order of the Week column: its categories, sorted by WeekSortKey
WeekLess(a, b) == PairLess(WeekSortKey(a.period), WeekSortKey(b.period))

\* the order of the Month column: the labels are strings
MonthLess(a, b) == StrLess(a.period, b.period)

\* the order of the sort_date column
SortDateLess(a, b) == DateLess(ParseMonthYear(a.period), ParseMonthYear(b.period))

\* groupby(period_col).agg(...): one row for every label, in label order
PeriodStats(t, period_col) ==
    LET found == DropDuplicates([i \in 1..Len(t) |-> t[i][period_col]])
        labels == StableSort(found,
                      [i, j \in 1..Len(found) |-> StrLess(found[i], found[j])])
        row(l) ==
            LET mine(f) == f[period_col] = l
                total == Len(SelectSeq(t, mine))
                on    == Len(SelectSeq(t, LAMBDA f : mine(f) /\ f.on_time))
            IN  [period              |-> l,
                 unique_staff        |-> NameNunique(SelectSeq(t, mine)),
                 total_sign_ins      |-> total,
                 on_time             |-> on,
                 late                |-> Len(SelectSeq(t, LAMBDA f : mine(f) /\ f.late)),
                 on_time_pct         |-> PercentTenths(on, total),
                 attendance_rate_pct |->
                     PercentTenths(NameNunique(SelectSeq(t, mine)), NameNunique(t))]
    IN  [i \in 1..Len(labels) |-> row(labels[i])]

\* the month rows: sorted by sort_date, then by the Month column
SortMonths(stats) ==
    LET by_date == StableSort(stats,
                       [i, j \in 1..Len(stats) |-> SortDateLess(stats[i], stats[j])])
    IN  StableSort(by_date,
            [i, j \in 1..Len(stats) |-> MonthLess(by_date[i], by_date[j])])

\* the week rows: sorted by the ordered categories of the Week column
SortWeeks(stats) ==
    StableSort(stats, [i, j \in 1..Len(stats) |-> WeekLess(stats[i], stats[j])])

CreateTimePeriodReport(t, period_type) ==
    IF t = EmptyFrame THEN EmptyFrame
    ELSE IF period_type = "week"
         THEN SortWeeks(PeriodStats(t, "week_identifier"))
         ELSE SortMonths(PeriodStats(t, "month_year"))

(***************************************************************************)
(* The streak calculator.                                                  *)
(***************************************************************************)
\* the walk: <<current_streak, max_streak>> after the facts of s
RECURSIVE StreakWalk(_)
StreakWalk(s) ==
    IF s = << >> THEN << 0, 0 >>
    ELSE LET before == StreakWalk(SubSeq(s, 1, Len(s) - 1))
             current == IF s[Len(s)].on_time THEN before[1] + 1 ELSE 0
         IN  << current, Max(before[2], current) >>

\* the facts in ascending date order, facts of one date in encounter order
SortByDate(s) ==
    StableSort(s, [i, j \in 1..Len(s) |-> DateLess(s[i].date, s[j].date)])

\* the streak running at the last fact, not the longest one
StreakAtLastFact(s) == StreakWalk(SortByDate(s))[1]

MaxOnTimeStreak(s) == StreakWalk(SortByDate(s))[2]

(***************************************************************************)
(* The state machine.  Facts and staff rows are uploaded first; then the   *)
(* functions are applied to the uploaded tables, each recording its        *)
(* result.  `after` is the call a function is called after.                *)
(***************************************************************************)
StreakDates == { << 2024, 1, 8 >>, << 2024, 1, 10 >> }
PersonFactRows == [date : StreakDates, on_time : BOOLEAN]

\* the last call made, "input" while the tables are being uploaded
LastCall == IF calls = << >> THEN "input" ELSE calls[Len(calls)]

Called(fn) == fn \in Range(calls)

Init ==
    /\ df = EmptyFrame
    /\ staff_list_df = EmptyFrame
    /\ calls = << >>
    /\ merged_df = EmptyFrame
    /\ attending_from_master = EmptyFrame
    /\ non_attending_staff = EmptyFrame
    /\ attendance_only_staff = EmptyFrame
    /\ kpis = EmptyKpis(EmptyFrame)
    /\ week_report = EmptyFrame
    /\ month_report = EmptyFrame
    /\ leaderboard = EmptyFrame
    /\ lb_path = "none"
    /\ person_facts = << >>
    /\ walked = << >>
    /\ max_on_time_streak = 0
    /\ rows_read = << >>

\* combine_all_files: one more row of an attendance file
UploadFact(rows, max) ==
    /\ calls = << >>
    /\ Len(rows_read) < max
    /\ \E raw \in rows :
          /\ rows_read' = Append(rows_read, raw)
          /\ df' = df \o ProcessExcelFile(<< raw >>)
    /\ UNCHANGED <<staff_list_df, calls, merged_df, attending_from_master,
                   non_attending_staff, attendance_only_staff, kpis, week_report,
                   month_report, leaderboard, lb_path, person_facts, walked,
                   max_on_time_streak>>

\* process_staff_list: one more row of the staff master list
UploadStaff ==
    /\ calls = << >>
    /\ Len(staff_list_df) < MaxStaff
    /\ \E raw \in StaffRows : staff_list_df' = ProcessStaffList(Append(staff_list_df, raw))
    /\ UNCHANGED <<df, calls, merged_df, attending_from_master,
                   non_attending_staff, attendance_only_staff, kpis, week_report,
                   month_report, leaderboard, lb_path, person_facts, walked,
                   max_on_time_streak, rows_read>>

\* compare_staff_lists(df, staff_list_df)
CompareStaffLists(after) ==
    /\ LastCall = after
    /\ LET r == CompareStaffListsResult(df, staff_list_df)
       IN  /\ merged_df' = r.merged_df
           /\ non_attending_staff' = r.non_attending_staff
           /\ attendance_only_staff' = r.attendance_only_staff
           /\ attending_from_master' = r.attending_from_master
    /\ calls' = Append(calls, "compared")
    /\ UNCHANGED <<df, staff_list_df, kpis, week_report, month_report,
                   leaderboard, lb_path, person_facts, walked, max_on_time_streak, rows_read>>

\* calculate_kpis(df, staff_list_df)
CalculateKpis(after) ==
    /\ LastCall = after
    /\ kpis' = CalculateKpisResult(df, staff_list_df)
    /\ calls' = Append(calls, "kpis")
    /\ UNCHANGED <<df, staff_list_df, merged_df, attending_from_master,
                   non_attending_staff, attendance_only_staff, week_report,
                   month_report, leaderboard, lb_path, person_facts, walked,
                   max_on_time_streak, rows_read>>

\* create_time_period_report(df, "week")
WeekReport(after) ==
    /\ LastCall = after
    /\ week_report' = CreateTimePeriodReport(df, "week")
    /\ calls' = Append(calls, "week")
    /\ UNCHANGED <<df, staff_list_df, merged_df, attending_from_master,
                   non_attending_staff, attendance_only_staff, kpis,
                   month_report, leaderboard, lb_path, person_facts, walked,
                   max_on_time_streak, rows_read>>

\* create_time_period_report(df, "month")
MonthReport(after) ==
    /\ LastCall = after
    /\ month_report' = CreateTimePeriodReport(df, "month")
    /\ calls' = Append(calls, "month")
    /\ UNCHANGED <<df, staff_list_df, merged_df, attending_from_master,
                   non_attending_staff, attendance_only_staff, kpis,
                   week_report, leaderboard, lb_path, person_facts, walked,
                   max_on_time_streak, rows_read>>

\* the main script's leaderboard section: the roster-merged table when there
\* is one, the attendance-only table otherwise
BuildLeaderboard(after) ==
    /\ LastCall = after
    /\ df # EmptyFrame
    /\ Called("compared")
    /\ IF merged_df # EmptyFrame
       THEN /\ leaderboard' \in CreateAttendanceLeaderboard(merged_df)
            /\ lb_path' = "roster_merged"
       ELSE /\ leaderboard' \in BasicLeaderboard(df)
            /\ lb_path' = "attendance_only"
    /\ calls' = Append(calls, "leaderboard")
    /\ UNCHANGED <<df, staff_list_df, merged_df, attending_from_master,
                   non_attending_staff, attendance_only_staff, kpis, week_report,
                   month_report, person_facts, walked, max_on_time_streak, rows_read>>

\* create_attendance_leaderboard(merged_df), called on its own
CallCreateAttendanceLeaderboard(after) ==
    /\ LastCall = after
    /\ Called("compared")
    /\ leaderboard' \in CreateAttendanceLeaderboard(merged_df)
    /\ lb_path' = "direct"
    /\ calls' = Append(calls, "leaderboard")
    /\ UNCHANGED <<df, staff_list_df, merged_df, attending_from_master,
                   non_attending_staff, attendance_only_staff, kpis, week_report,
                   month_report, person_facts, walked, max_on_time_streak, rows_read>>

\* one more fact of the person whose streak is calculated
AddPersonFact ==
    /\ calls = << >>
    /\ Len(person_facts) < MaxPersonFacts
    /\ \E f \in PersonFactRows : person_facts' = Append(person_facts, f)
    /\ UNCHANGED <<df, staff_list_df, calls, merged_df, attending_from_master,
                   non_attending_staff, attendance_only_staff, kpis, week_report,
                   month_report, leaderboard, lb_path, walked, max_on_time_streak, rows_read>>

\* the streak calculator, applied to the person's facts
CalculateStreak(after) ==
    /\ LastCall = after
    /\ walked' = SortByDate(person_facts)
    /\ max_on_time_streak' = MaxOnTimeStreak(person_facts)
    /\ calls' = Append(calls, "streak")
    /\ UNCHANGED <<df, staff_list_df, merged_df, attending_from_master,
                   non_attending_staff, attendance_only_staff, kpis, week_report,
                   month_report, leaderboard, lb_path, person_facts, rows_read>>

\* reconciliation, KPIs, rollups and leaderboard over one upload
UploadRosterFact == UploadFact(RosterRows, MaxFacts)
Next ==
    \/ UploadRosterFact
    \/ UploadStaff
    \/ CompareStaffLists("input")
    \/ CalculateKpis("compared")
    \/ WeekReport("kpis")
    \/ MonthReport("week")
    \/ BuildLeaderboard("month")
    \/ CallCreateAttendanceLeaderboard("month")
Spec == Init /\ [][Next]_vars

\* the leaderboards over the facts of three persons
UploadBoardFact == UploadFact(BoardRows, MaxBoardFacts)
NextBoard ==
    \/ UploadBoardFact
    \/ UploadStaff
    \/ CompareStaffLists("input")
    \/ BuildLeaderboard("compared")
    \/ CallCreateAttendanceLeaderboard("compared")
SpecBoard == Init /\ [][NextBoard]_vars

\* the KPIs over facts of several dates
UploadKpiFact == UploadFact(KpiRows, MaxKpiFacts)
NextKpi ==
    \/ UploadKpiFact
    \/ UploadStaff
    \/ CalculateKpis("input")
SpecKpi == Init /\ [][NextKpi]_vars

\* the period rollups over facts of several weeks, months and years
UploadPeriodFact == UploadFact(PeriodRows, MaxPeriodFacts)
NextPeriod ==
    \/ UploadPeriodFact
    \/ WeekReport("input")
    \/ MonthReport("week")
SpecPeriod == Init /\ [][NextPeriod]_vars

\* the aggregates over rows with and without a sign-in time
UploadSignInFact == UploadFact(SignInRows, MaxSignInFacts)
NextSignIn ==
    \/ UploadSignInFact
    \/ UploadStaff
    \/ CompareStaffLists("input")
    \/ CalculateKpis("compared")
    \/ WeekReport("kpis")
SpecSignIn == Init /\ [][NextSignIn]_vars

\* the streak calculator over one person's facts
NextStreak ==
    \/ AddPersonFact
    \/ CalculateStreak("input")
SpecStreak == Init /\ [][NextStreak]_vars

(***************************************************************************)
(* Properties.                                                             *)
(***************************************************************************)
\* the result of compare_staff_lists on a non-empty fact table and roster
Reconciled == Called("compared") /\ df # EmptyFrame /\ staff_list_df # EmptyFrame

\* the roster rows whose trimmed, upper-cased name is the trimmed,
\* upper-cased name of no fact
RosterRowsWithoutFact ==
    { r \in Range(staff_list_df) :
        \A f \in Range(df) : Upper(Strip(r.name)) # Upper(Strip(f.name)) }

\* C1: after compare_staff_lists on a non-empty fact table and a non-empty
\* roster, the never-attended rows are exactly the roster rows whose
\* normalized name is the normalized name of no fact, every other roster row
\* is an attending row, and the two partitions are disjoint and cover the
\* roster.
C1_RosterPartition ==
    Reconciled =>
        /\ Range(non_attending_staff) = RosterRowsWithoutFact
        /\ Range(attending_from_master) = Range(staff_list_df) \ RosterRowsWithoutFact
        /\ Range(non_attending_staff) \cap Range(attending_from_master) = {}
        /\ Len(non_attending_staff) + Len(attending_from_master) = Len(staff_list_df)

\* a roster entry attends through a fact whose name is written differently,
\* and another roster entry never attended
C1_Witness ==
    /\ Reconciled
    /\ non_attending_staff # EmptyFrame
    /\ \E r \in Range(attending_from_master) : \E f \in Range(df) :
          f.name # r.name /\ Upper(Strip(f.name)) = r.name

\* the names of the facts whose normalized name is on no roster row
UnlistedNames ==
    { f.name : f \in { g \in Range(df) :
        \A r \in Range(staff_list_df) : Upper(Strip(g.name)) # Upper(Strip(r.name)) } }

\* C2: the unlisted partition holds exactly the names of the facts whose
\* normalized name matches no roster entry, nobody on the roster is in it, and
\* every unlisted name is in it once.
C2_UnlistedOnce ==
    Reconciled =>
        /\ { r.name : r \in Range(attendance_only_staff) } = UnlistedNames
        /\ \A r \in Range(attendance_only_staff) : \A m \in Range(staff_list_df) :
              Upper(Strip(r.name)) # Upper(Strip(m.name))
        /\ \A i, j \in 1..Len(attendance_only_staff) :
              attendance_only_staff[i].name = attendance_only_staff[j].name => i = j

\* points of a leaderboard row: 10 for a sign-in on time, 2 for a late one
Points(row) == row.on_time_days * 10 + row.late_days * 2

LeaderboardBuilt == Called("leaderboard")

C4_RankIsRowPosition ==
    LeaderboardBuilt =>
        \A i \in 1..Len(leaderboard) : leaderboard[i].rank = i

\* the rows at positions 2 and 3 tie on the sort keys and have ranks 2 and 3
C4_Witness ==
    /\ LeaderboardBuilt
    /\ Len(leaderboard) >= 3
    /\ leaderboard[2].total_days = leaderboard[3].total_days
    /\ leaderboard[2].on_time_percentage = leaderboard[3].on_time_percentage
    /\ leaderboard[2].rank = 2
    /\ leaderboard[3].rank = 3

\* C5, as stated: no leaderboard row has total_days = 0.
C5_NoRowWithoutSignIn ==
    LeaderboardBuilt =>
        \A i \in 1..Len(leaderboard) : leaderboard[i].total_days # 0

\* C5, amended: the attendance-only leaderboard has no row with
\* total_days = 0; the leaderboard of the roster-merged table has a row for
\* every roster entry, and its rows with total_days = 0 are the roster entries
\* no fact matches, with status Non-Attending.
C5_ZeroRowsAreRosterOnly ==
    LeaderboardBuilt =>
        /\ lb_path = "attendance_only" =>
              \A i \in 1..Len(leaderboard) : leaderboard[i].total_days > 0
        /\ lb_path # "attendance_only" =>
              /\ Len(leaderboard) = Len(merged_df)
              /\ merged_df # EmptyFrame => Len(leaderboard) = Len(staff_list_df)
              /\ \A i \in 1..Len(leaderboard) :
                    leaderboard[i].total_days = 0 <=>
                        /\ leaderboard[i].attendance_status = "Non-Attending"
                        /\ \A f \in Range(df) :
                              Upper(Strip(f.name)) # Upper(Strip(leaderboard[i].name))

\* the main script's leaderboard of a roster-merged table has a row without
\* a sign-in
C5_Witness ==
    /\ LeaderboardBuilt
    /\ lb_path = "roster_merged"
    /\ \E i \in 1..Len(leaderboard) : leaderboard[i].total_days = 0

\* the lengths of the runs of consecutive on-time facts of s
OnTimeRuns(s) ==
    { n \in 1..Len(s) : \E i \in 1..(Len(s) - n + 1) :
        \A k \in i..(i + n - 1) : s[k].on_time }

LongestOnTimeRun(s) ==
    IF OnTimeRuns(s) = {} THEN 0
    ELSE CHOOSE n \in OnTimeRuns(s) : \A m \in OnTimeRuns(s) : m <= n

\* C6: the facts are walked in ascending date order, and max_on_time_streak
\* is the length of the longest run of consecutive on-time facts in that
\* order, whatever the days between them; it is an integer >= 0.
C6_LongestOnTimeRun ==
    Called("streak") =>
        /\ Len(walked) = Len(person_facts)
        /\ \A x \in Range(person_facts) :
              Len(SelectSeq(walked, LAMBDA y : y = x)) = Len(SelectSeq(person_facts, LAMBDA y : y = x))
        /\ \A i \in 1..(Len(walked) - 1) :
              ToOrdinal(walked[i].date) <= ToOrdinal(walked[i + 1].date)
        /\ max_on_time_streak = LongestOnTimeRun(walked)
        /\ max_on_time_streak \in 0..Len(walked)

\* the facts [on_time, on_time, late, on_time, on_time, on_time] give 3, the
\* last run going over a day without a fact
C6_Witness ==
    /\ Called("streak")
    /\ [i \in 1..Len(walked) |-> walked[i].on_time]
          = << TRUE, TRUE, FALSE, TRUE, TRUE, TRUE >>
    /\ \E k \in 4..5 : ToOrdinal(walked[k + 1].date) - ToOrdinal(walked[k].date) > 1
    /\ max_on_time_streak = 3

\* C7: the rows of the month report are in chronological order of their
\* month.
C7_MonthsChronological ==
    Called("month") =>
        \A i \in 1..(Len(month_report) - 1) : \A f, g \in Range(df) :
            (f.month_year = month_report[i].period
                /\ g.month_year = month_report[i + 1].period)
            => PairLess(<< f.date[1], f.date[2] >>, << g.date[1], g.date[2] >>)

\* C8: the rows of the week report are in ascending order of
\* (ISO year, ISO week) of their facts.
C8_WeeksByIsoYearAndWeek ==
    Called("week") =>
        \A i \in 1..(Len(week_report) - 1) : \A f, g \in Range(df) :
            (f.week_identifier = week_report[i].period
                /\ g.week_identifier = week_report[i + 1].period)
            => PairLess(IsoCalendar(f.date), IsoCalendar(g.date))

\* the week report has 2025-W9 before 2025-W10
C8_Witness ==
    /\ Called("week")
    /\ Len(week_report) = 2
    /\ week_report[1].period = << "2", "0", "2", "5", "-", "W", "9" >>
    /\ week_report[2].period = << "2", "0", "2", "5", "-", "W", "1", "0" >>

\* the distinct names with a fact dated today
NamesPresentToday == { f.name : f \in { g \in Range(df) : g.date = Today } }

KpisOfFacts == Called("kpis") /\ df # EmptyFrame

\* C9, as stated: absent_today is total_staff - present_today without a
\* roster and roster size - present_today with one, present_today being the
\* number of distinct persons with a fact dated today.
C9_AbsentToday ==
    KpisOfFacts =>
        /\ kpis.present_today = Cardinality(NamesPresentToday)
        /\ staff_list_df = EmptyFrame =>
              kpis.absent_today = kpis.total_staff - kpis.present_today
        /\ staff_list_df # EmptyFrame =>
              kpis.absent_today = Len(staff_list_df) - kpis.present_today

\* C9, amended: present_today is the number of distinct names with a fact
\* dated today; without a roster absent_today is 0; with a roster it is
\* roster size - present_today, and 0 when that would be negative.
C9_AbsentTodayClamped ==
    KpisOfFacts =>
        /\ kpis.present_today = Cardinality(NamesPresentToday)
        /\ staff_list_df = EmptyFrame => kpis.absent_today = 0
        /\ (staff_list_df # EmptyFrame /\ Len(staff_list_df) >= kpis.present_today) =>
              kpis.absent_today = Len(staff_list_df) - kpis.present_today
        /\ (staff_list_df # EmptyFrame /\ Len(staff_list_df) < kpis.present_today) =>
              kpis.absent_today = 0

\* with a roster of one, two persons are present today and nobody is absent
C9_Witness ==
    /\ KpisOfFacts
    /\ Len(staff_list_df) = 1
    /\ kpis.present_today = 2
    /\ kpis.absent_today = 0

\* C10: on empty input calculate_kpis gives 0 for every count and rate (with
\* a roster: non_attending_staff = roster size, attendance_rate = 0),
\* compare_staff_lists gives three empty tables, and
\* create_attendance_leaderboard and create_time_period_report give an empty
\* table.
C10_EmptyInEmptyOut ==
    /\ (Called("kpis") /\ df = EmptyFrame) =>
          /\ \A k \in { "total_staff", "present_today", "absent_today", "avg_signins",
                        "total_on_time", "total_late", "on_time_rate",
                        "avg_daily_attendance", "total_signins", "total_days_covered" } :
                kpis[k] = 0
          /\ staff_list_df # EmptyFrame =>
                /\ kpis.non_attending_staff = Len(staff_list_df)
                /\ kpis.attending_staff = 0
                /\ kpis.attendance_rate = 0
    /\ (Called("compared") /\ (df = EmptyFrame \/ staff_list_df = EmptyFrame)) =>
          /\ merged_df = EmptyFrame
          /\ non_attending_staff = EmptyFrame
          /\ attendance_only_staff = EmptyFrame
    /\ (Called("week") /\ df = EmptyFrame) => week_report = EmptyFrame
    /\ (Called("month") /\ df = EmptyFrame) => month_report = EmptyFrame
    /\ (Called("leaderboard") /\ merged_df = EmptyFrame /\ lb_path = "direct") =>
          leaderboard = EmptyFrame

\* every function has been called with no facts and a roster
C10_Witness ==
    /\ df = EmptyFrame
    /\ staff_list_df # EmptyFrame
    /\ Called("compared") /\ Called("kpis") /\ Called("week") /\ Called("month")
    /\ Called("leaderboard")
    /\ lb_path = "direct"

\* r is part / whole as a percentage to the nearest tenth, in tenths
IsPercentOf(r, part, whole) ==
    LET diff == r * whole - 1000 * part
    IN  2 * diff <= whole /\ 2 * diff >= 0 - whole

\* the parts of C11 that hold as stated: on_time_rate is 0 when there is no
\* sign-in and total_on_time / (total_on_time + total_late) otherwise; a
\* roster entry's on_time_percentage is 0 when it has no sign-in and
\* on_time_days / total_days otherwise; with a roster of one or more entries
\* attendance_rate is attending_staff / roster size
GuardedRates ==
    /\ Called("kpis") =>
          /\ kpis.total_on_time + kpis.total_late = 0 => kpis.on_time_rate = 0
          /\ kpis.total_on_time + kpis.total_late > 0 =>
                IsPercentOf(kpis.on_time_rate, kpis.total_on_time,
                            kpis.total_on_time + kpis.total_late)
          /\ Len(staff_list_df) > 0 =>
                IsPercentOf(kpis.attendance_rate, kpis.attending_staff,
                            Len(staff_list_df))
    /\ Called("compared") =>
          \A i \in 1..Len(merged_df) :
              /\ merged_df[i].total_days = 0 => merged_df[i].on_time_percentage = 0
              /\ merged_df[i].total_days > 0 =>
                    IsPercentOf(merged_df[i].on_time_percentage,
                                merged_df[i].on_time_days, merged_df[i].total_days)

\* C11, as stated: every rate is 0 when its denominator is 0 - on_time_rate
\* without sign-ins, the roster attendance rate with a roster of size 0, a
\* roster entry's on_time_percentage with 0 sign-ins - and the ratio (as a
\* percentage) otherwise.
C11_ZeroDenominatorGivesZero ==
    /\ GuardedRates
    /\ (Called("kpis") /\ Len(staff_list_df) = 0) =>
          /\ "attendance_rate" \in DOMAIN kpis
          /\ kpis.attendance_rate = 0

\* C11, amended: as stated for on_time_rate and on_time_percentage; with a
\* roster of size 0 calculate_kpis computes no attendance rate (the KPI record
\* has no roster fields), with a roster and no facts attendance_rate is 0.
C11_GuardedRates ==
    /\ GuardedRates
    /\ (Called("kpis") /\ Len(staff_list_df) = 0) =>
          DOMAIN kpis \cap { "attendance_rate", "attending_staff",
                             "non_attending_staff", "total_staff_in_list" } = {}
    /\ (Called("kpis") /\ Len(staff_list_df) > 0 /\ df = EmptyFrame) =>
          kpis.attendance_rate = 0

\* a roster entry without a sign-in has on_time_percentage 0 next to one
\* whose sign-ins are half on time, and the KPIs' on_time_rate is 50%
C11_Witness ==
    /\ Called("kpis") /\ Called("compared")
    /\ kpis.on_time_rate = 500
    /\ \E i, j \in 1..Len(merged_df) :
          /\ merged_df[i].total_days = 0 /\ merged_df[i].on_time_percentage = 0
          /\ merged_df[j].total_days = 2 /\ merged_df[j].on_time_percentage = 500

\* the sum of the numbers of s
RECURSIVE SumOf(_)
SumOf(s) == IF s = << >> THEN 0 ELSE s[1] + SumOf(Tail(s))

\* the rows read that have a sign-in time at or before 08:00 (minute 480)
RowsReadOnTime ==
    { i \in 1..Len(rows_read) :
        rows_read[i].sign_in # NoTime /\ rows_read[i].sign_in <= 8 * 60 }

\* the rows read that have a sign-in time after 08:00
RowsReadLate ==
    { i \in 1..Len(rows_read) :
        rows_read[i].sign_in # NoTime /\ rows_read[i].sign_in > 8 * 60 }

StatusFits(row) ==
    /\ row.total_days >= 0
    /\ row.attendance_status \in { "Regular", "Occasional", "Non-Attending" }
    /\ row.attendance_status = "Regular" <=> row.total_days >= 3
    /\ row.attendance_status = "Occasional" <=> row.total_days \in { 1, 2 }
    /\ row.attendance_status = "Non-Attending" <=> row.total_days = 0

\* C13: every row of the roster-merged table and every row of a leaderboard,
\* built from the roster-merged table or from the attendance alone, has
\* exactly one status label: Regular iff it has 3 or more sign-ins, Occasional
\* iff it has 1 or 2, Non-Attending iff it has none; so both paths give the
\* same label to the same count.
C13_StatusByCount ==
    /\ Called("compared") => \A i \in 1..Len(merged_df) : StatusFits(merged_df[i])
    /\ LeaderboardBuilt => \A i \in 1..Len(leaderboard) : StatusFits(leaderboard[i])

\* an attendance-only leaderboard has a Regular row with 3 sign-ins
C13_WitnessBasic ==
    /\ LeaderboardBuilt
    /\ lb_path = "attendance_only"
    /\ \E i \in 1..Len(leaderboard) :
          leaderboard[i].total_days = 3 /\ leaderboard[i].attendance_status = "Regular"

\* a roster-merged leaderboard has an Occasional row with 2 sign-ins above a
\* Non-Attending row with none
C13_Witness ==
    /\ LeaderboardBuilt
    /\ lb_path = "roster_merged"
    /\ Len(leaderboard) = 2
    /\ leaderboard[1].total_days = 2
    /\ leaderboard[1].attendance_status = "Occasional"
    /\ leaderboard[2].total_days = 0
    /\ leaderboard[2].attendance_status = "Non-Attending"

\* the facts whose week or month label is the row's period
FactsOfPeriod(row) ==
    SelectSeq(df, LAMBDA f : row.period \in { f.week_identifier, f.month_year })

\* the distinct names of the facts of s
NamesOf(s) == { s[i].name : i \in 1..Len(s) }

\* the period report's rows are the rollup C14 describes
PeriodRollupFits(report) ==
    /\ \A i \in 1..Len(report) :
          /\ report[i].unique_staff = Cardinality(NamesOf(FactsOfPeriod(report[i])))
          /\ report[i].total_sign_ins = Len(FactsOfPeriod(report[i]))
          /\ IsPercentOf(report[i].attendance_rate_pct, report[i].unique_staff,
                         Cardinality(NamesOf(df)))
          /\ report[i].attendance_rate_pct > 0
          /\ report[i].attendance_rate_pct <= 1000
          /\ report[i].total_sign_ins = report[i].on_time + report[i].late
          /\ report[i].unique_staff <= report[i].total_sign_ins
    /\ SumOf([i \in 1..Len(report) |-> report[i].total_sign_ins]) = Len(df)

\* C14: in the week report and in the month report, every row's
\* attendance rate is its unique staff count over the number of distinct
\* names of all the facts, more than 0 and at most 100%; its total sign-ins
\* are its on-time count plus its late count; its unique staff count is at
\* most its total sign-ins; and the total sign-ins of the rows sum to the
\* number of facts.
C14_PeriodRollup ==
    /\ (Called("week") /\ df # EmptyFrame) => PeriodRollupFits(week_report)
    /\ (Called("month") /\ df # EmptyFrame) => PeriodRollupFits(month_report)

\* two persons signed in once each, in different months: the month report has
\* two rows, each with 1 unique staff, 1 sign-in and attendance rate 50%
C14_Witness ==
    /\ Called("month")
    /\ Len(month_report) = 2
    /\ \A i \in 1..2 :
          /\ month_report[i].attendance_rate_pct = 500
          /\ month_report[i].unique_staff = 1
          /\ month_report[i].total_sign_ins = 1

\* the days of January 2024, the month of the facts of the KPI runs
January2024 == { << 2024, 1, d >> : d \in 1..31 }

\* the days from the earliest fact date to the latest, both included
DaysSpanned ==
    { d \in January2024 :
        /\ \E f \in Range(df) : ~DateLess(d, f.date)
        /\ \E f \in Range(df) : ~DateLess(f.date, d) }

\* C15: for a non-empty fact table total_days_covered is the number of days
\* from the earliest fact date to the latest, both included: at least 1, 1
\* when all facts have one date, 10 for facts from 2024-01-01 to 2024-01-10
\* with or without facts on the days between.
C15_InclusiveDaySpan ==
    KpisOfFacts =>
        /\ \A f \in Range(df) : f.date \in January2024
        /\ kpis.total_days_covered = Cardinality(DaysSpanned)
        /\ kpis.total_days_covered >= 1
        /\ Cardinality({ f.date : f \in Range(df) }) = 1 => kpis.total_days_covered = 1
        /\ { << 2024, 1, 1 >>, << 2024, 1, 10 >> } \subseteq { f.date : f \in Range(df) }
              => kpis.total_days_covered = 10

\* the facts are dated 2024-01-01 and 2024-01-10, none between, and 10 days
\* are covered
C15_Witness ==
    /\ KpisOfFacts
    /\ { f.date : f \in Range(df) } = { << 2024, 1, 1 >>, << 2024, 1, 10 >> }
    /\ kpis.total_days_covered = 10

\* the positions in df of the facts whose trimmed, upper-cased name is the
\* trimmed, upper-cased name of the roster entry
FactsMatching(entry) ==
    { k \in 1..Len(df) : Upper(Strip(df[k].name)) = Upper(Strip(entry.name)) }

DayCountsAddUp(row) ==
    /\ row.on_time_days >= 0
    /\ row.late_days >= 0
    /\ row.on_time_days + row.late_days = row.total_days

\* the counts of a period report row add up
PeriodCountsAddUp(row) ==
    /\ row.on_time >= 0
    /\ row.late >= 0
    /\ row.on_time + row.late = row.total_sign_ins

\* C17: in every row of the roster-merged table, of a leaderboard, of the
\* week report and of the month report, and in the KPIs, the on-time count
\* plus the late count is the sign-in count, and both counts are >= 0; the
\* KPIs' sign-in count is the number of facts.
C17_OnTimePlusLateIsTotal ==
    /\ Called("compared") => \A i \in 1..Len(merged_df) : DayCountsAddUp(merged_df[i])
    /\ LeaderboardBuilt => \A i \in 1..Len(leaderboard) : DayCountsAddUp(leaderboard[i])
    /\ Called("week") => \A i \in 1..Len(week_report) : PeriodCountsAddUp(week_report[i])
    /\ Called("month") => \A i \in 1..Len(month_report) : PeriodCountsAddUp(month_report[i])
    /\ Called("kpis") =>
          /\ kpis.total_on_time >= 0
          /\ kpis.total_late >= 0
          /\ kpis.total_on_time + kpis.total_late = kpis.total_signins
          /\ kpis.total_signins = Len(df)

\* one sign-in on time and one late of one roster entry: 1 + 1 = 2 in the
\* merged table, the leaderboard, both reports and the KPIs
C17_Witness ==
    /\ LeaderboardBuilt
    /\ lb_path = "roster_merged"
    /\ \E i \in 1..Len(merged_df) :
          merged_df[i].on_time_days = 1 /\ merged_df[i].late_days = 1
    /\ leaderboard[1].on_time_days = 1 /\ leaderboard[1].late_days = 1
    /\ leaderboard[1].total_days = 2
    /\ week_report[1].on_time = 1 /\ week_report[1].late = 1
    /\ month_report[1].total_sign_ins = 2
    /\ kpis.total_on_time = 1 /\ kpis.total_late = 1 /\ kpis.total_signins = 2

\* C18: for a non-empty fact table and a non-empty roster, the KPIs'
\* non_attending_staff is the number of rows of the reconciler's
\* never-attended partition, their attending_staff is the number of roster
\* rows of the attending partition, and their attendance_rate is at most
\* 100%.
C18_KpisAgreeWithReconciler ==
    (Called("kpis") /\ Reconciled) =>
        /\ kpis.non_attending_staff = Len(non_attending_staff)
        /\ kpis.attending_staff = Len(attending_from_master)
        /\ kpis.attendance_rate <= 1000

====
